---- MODULE Spec2Model ----
(***************************************************************************)
(* Model of the serman binary (de)serialization core (src/src/lib.rs).     *)
(*                                                                         *)
(* A byte stream is a sequence of bytes (0..255) with a read cursor `pos`  *)
(* (the number of bytes consumed so far), as std::io::Cursor<Vec<u8>>; a   *)
(* writer is a Vec<u8> (unbounded) or a fixed slice (bounded capacity).    *)
(* A String is the sequence of its Unicode scalar values (code points,     *)
(* never surrogates).  Integers wider than TLC's own are carried as        *)
(* numerals: a 32-bit count as two 16-bit limbs, a primitive value as a    *)
(* sign and a most-significant-first base-256 magnitude.                   *)
(***************************************************************************)
EXTENDS Integers, Sequences, FiniteSets, TLC

VARIABLES stream, pos, prev, op, arg, res, src

vars == <<stream, pos, prev, op, arg, res, src>>

----------------------------------------------------------------------------
(* Bounds of the model *)

\* characters in an encoded String
MaxStrLen == 3
\* code units / bytes in a hand-built string payload
MaxPayload == 3

----------------------------------------------------------------------------
(* Numbers of the wire format and of the Rust standard library *)

\* i32::MIN, the one prefix whose negation overflows (lib.rs:343)
MinI32 == -2147483647 - 1
\* i32::MAX
MaxI32 == 2147483647
\* char::REPLACEMENT_CHARACTER, what from_utf8_lossy substitutes (lib.rs:350)
Replacement == 65533

\* results of a call: a value, an I/O failure, or a panic (unwinding abort)
Ok(v, p) == [kind |-> "ok", val |-> v, pos |-> p]
IoErr(p) == [kind |-> "io", val |-> <<>>, pos |-> p]
Panic(p) == [kind |-> "panic", val |-> <<>>, pos |-> p]

RECURSIVE Flatten(_)
Flatten(ss) == IF ss = <<>> THEN <<>> ELSE Head(ss) \o Flatten(Tail(ss))

\* Iterator::position(|&c| c == 0).unwrap_or(chars.len())  (0-based index)
RECURSIVE position_zero(_)
position_zero(chars) ==
    IF chars = <<>> THEN 0
    ELSE IF Head(chars) = 0 THEN 0
    ELSE 1 + position_zero(Tail(chars))

----------------------------------------------------------------------------
(* Stream primitives (std::io::Read / byteorder::ReadBytesExt) *)

\* how a reader leaves its cursor when read_exact meets the end of the data:
\* Read::read_exact leaves the number of bytes consumed unspecified.  "end":
\* everything left was consumed (the default read loop, Cursor and &[u8] of
\* current std); "stay": nothing was (Cursor of older std).
Readers == {"end", "stay"}

\* Read::read_exact(buf) with buf.len() = n: all n bytes, or UnexpectedEof
read_exact(s, p, n, rd) ==
    IF n <= Len(s) - p
    THEN Ok(SubSeq(s, p + 1, p + n), p + n)
    ELSE IoErr(IF rd = "end" THEN Len(s) ELSE p)

\* read_u16::<LE>
read_u16(s, p, rd) ==
    LET r == read_exact(s, p, 2, rd)
    IN  IF r.kind = "ok" THEN Ok(r.val[1] + 256 * r.val[2], r.pos) ELSE r

\* read_i32::<LE>: two's complement, little-endian
read_i32(s, p, rd) ==
    LET r == read_exact(s, p, 4, rd)
        b == r.val
        top == IF b[4] >= 128 THEN b[4] - 256 ELSE b[4]
    IN  IF r.kind = "ok"
        THEN Ok(b[1] + 256 * b[2] + 65536 * b[3] + 16777216 * top, r.pos)
        ELSE r

\* read_u32::<LE>: the value as two 16-bit limbs <<high, low>>
read_u32(s, p, rd) ==
    LET r == read_exact(s, p, 4, rd)
        b == r.val
    IN  IF r.kind = "ok"
        THEN Ok(<<b[3] + 256 * b[4], b[1] + 256 * b[2]>>, r.pos)
        ELSE r

(* Writer primitives (byteorder::WriteBytesExt into a Vec<u8>) *)

\* write_u16::<LE>
write_u16(v) == <<v % 256, (v \div 256) % 256>>

\* write_i32::<LE> / write_u32::<LE> of a value in i32 range: the four
\* two's-complement bytes, least significant first
write_i32(v) ==
    <<v % 256, (v \div 256) % 256, (v \div 65536) % 256, (v \div 16777216) % 256>>

----------------------------------------------------------------------------
(* Text conversions of the standard library used by the string codec *)

\* a bug: treating every Latin-1 character as single-byte-safe
is_ascii_latin1(value) == \A i \in 1..Len(value) : value[i] < 256

\* str::is_ascii
is_ascii(value) == \A i \in 1..Len(value) : value[i] < 128

\* UTF-8 encoding of one scalar value
utf8_of_char(c) ==
    IF c < 128 THEN <<c>>
    ELSE IF c < 2048 THEN <<192 + (c \div 64), 128 + (c % 64)>>
    ELSE IF c < 65536
         THEN <<224 + (c \div 4096), 128 + ((c \div 64) % 64), 128 + (c % 64)>>
    ELSE <<240 + (c \div 262144), 128 + ((c \div 4096) % 64),
           128 + ((c \div 64) % 64), 128 + (c % 64)>>

\* str::as_bytes: the UTF-8 bytes of the string
as_bytes(value) == Flatten([i \in 1..Len(value) |-> utf8_of_char(value[i])])

\* a bug: truncating a scalar value to one 16-bit unit
utf16_of_char_ucs2(c) == <<c % 65536>>

\* UTF-16 encoding of one scalar value
utf16_of_char(c) ==
    IF c < 65536 THEN <<c>>
    ELSE <<55296 + ((c - 65536) \div 1024), 56320 + ((c - 65536) % 1024)>>

\* str::encode_utf16().collect()
encode_utf16(value) == Flatten([i \in 1..Len(value) |-> utf16_of_char(value[i])])

IsSurrogate(u) == u >= 55296 /\ u <= 57343
IsLowSurrogate(u) == u >= 56320 /\ u <= 57343

\* String::from_utf16: the scalar values, or an error on an unpaired
\* surrogate.  [ok, val]
RECURSIVE from_utf16(_)
from_utf16(units) ==
    IF units = <<>> THEN [ok |-> TRUE, val |-> <<>>]
    ELSE LET u == Head(units) IN
         IF ~IsSurrogate(u)
         THEN LET r == from_utf16(Tail(units))
              IN  [ok |-> r.ok, val |-> <<u>> \o r.val]
         ELSE IF IsLowSurrogate(u) \/ Len(units) < 2 \/ ~IsLowSurrogate(units[2])
         THEN [ok |-> FALSE, val |-> <<>>]
         ELSE LET r == from_utf16(Tail(Tail(units)))
                  c == 65536 + (u - 55296) * 1024 + (units[2] - 56320)
              IN  [ok |-> r.ok, val |-> <<c>> \o r.val]

\* safe_get of core::str::lossy: the byte at 1-based index i, 0 past the end
safe_get(bs, i) == IF i <= Len(bs) THEN bs[i] ELSE 0
IsCont(b) == b >= 128 /\ b <= 191

\* second byte allowed after a three- or four-byte lead (core::str::lossy)
SecondOk(b, c) ==
    \/ b = 224 /\ c >= 160 /\ c <= 191
    \/ b >= 225 /\ b <= 236 /\ IsCont(c)
    \/ b = 237 /\ c >= 128 /\ c <= 159
    \/ b >= 238 /\ b <= 239 /\ IsCont(c)
    \/ b = 240 /\ c >= 144 /\ c <= 191
    \/ b >= 241 /\ b <= 243 /\ IsCont(c)
    \/ b = 244 /\ c >= 128 /\ c <= 143

\* String::from_utf8_lossy: each maximal invalid part becomes U+FFFD
RECURSIVE from_utf8_lossy_at(_, _)
from_utf8_lossy_at(bs, i) ==
    IF i > Len(bs) THEN <<>>
    ELSE LET b == bs[i]
             b2 == safe_get(bs, i + 1)
             b3 == safe_get(bs, i + 2)
             b4 == safe_get(bs, i + 3)
         IN
         IF b < 128 THEN <<b>> \o from_utf8_lossy_at(bs, i + 1)
         ELSE IF b >= 194 /\ b <= 223
         THEN IF IsCont(b2)
              THEN <<(b - 192) * 64 + (b2 - 128)>> \o from_utf8_lossy_at(bs, i + 2)
              ELSE <<Replacement>> \o from_utf8_lossy_at(bs, i + 1)
         ELSE IF b >= 224 /\ b <= 239
         THEN IF ~SecondOk(b, b2)
              THEN <<Replacement>> \o from_utf8_lossy_at(bs, i + 1)
              ELSE IF ~IsCont(b3)
              THEN <<Replacement>> \o from_utf8_lossy_at(bs, i + 2)
              ELSE <<(b - 224) * 4096 + (b2 - 128) * 64 + (b3 - 128)>>
                   \o from_utf8_lossy_at(bs, i + 3)
         ELSE IF b >= 240 /\ b <= 244
         THEN IF ~SecondOk(b, b2)
              THEN <<Replacement>> \o from_utf8_lossy_at(bs, i + 1)
              ELSE IF ~IsCont(b3)
              THEN <<Replacement>> \o from_utf8_lossy_at(bs, i + 2)
              ELSE IF ~IsCont(b4)
              THEN <<Replacement>> \o from_utf8_lossy_at(bs, i + 3)
              ELSE <<(b - 240) * 262144 + (b2 - 128) * 4096
                     + (b3 - 128) * 64 + (b4 - 128)>>
                   \o from_utf8_lossy_at(bs, i + 4)
         ELSE <<Replacement>> \o from_utf8_lossy_at(bs, i + 1)

from_utf8_lossy(bs) == from_utf8_lossy_at(bs, 1)

----------------------------------------------------------------------------
(* Primitive codec: bool and the fixed-width integers *)

Types == {"u8", "i8", "u16", "i16", "u32", "i32", "u64", "i64"}

\* byte width of each integer type (read_u8 .. read_i64 / write_u8 .. write_i64)
Width(t) ==
    CASE t \in {"u8", "i8"} -> 1
      [] t \in {"u16", "i16"} -> 2
      [] t \in {"u32", "i32"} -> 4
      [] t \in {"u64", "i64"} -> 8

Signed(t) == t \in {"i8", "i16", "i32", "i64"}

RECURSIVE Reverse(_)
Reverse(s) == IF s = <<>> THEN <<>> ELSE Reverse(Tail(s)) \o <<Head(s)>>

\* d + 1 on a least-significant-first base-256 numeral, wrapping at its width
RECURSIVE AddOne(_)
AddOne(d) ==
    IF d = <<>> THEN <<>>
    ELSE IF Head(d) = 255 THEN <<0>> \o AddOne(Tail(d))
    ELSE <<Head(d) + 1>> \o Tail(d)

\* two's-complement negation of a least-significant-first numeral
Negate(d) == AddOne([i \in 1..Len(d) |-> 255 - d[i]])

\* a bug: writing the most significant byte first
to_le_bytes_big_endian(v) ==
    IF v.neg THEN Reverse(Negate(Reverse(v.mag))) ELSE v.mag

\* little-endian bytes of an integer value [neg, mag], mag most significant
\* first (to_le_bytes as byteorder's write_*::<LE> does)
to_le_bytes(v) == IF v.neg THEN Negate(Reverse(v.mag)) ELSE Reverse(v.mag)

\* the integer value of little-endian bytes (from_le_bytes)
from_le_bytes(t, b) ==
    IF Signed(t) /\ b[Len(b)] >= 128
    THEN [neg |-> TRUE, mag |-> Reverse(Negate(b))]
    ELSE [neg |-> FALSE, mag |-> Reverse(b)]

\* <integer type as Readable>::de
prim_de(t, s, p, rd) ==
    LET r == read_exact(s, p, Width(t), rd)
    IN  IF r.kind = "ok" THEN Ok(from_le_bytes(t, r.val), r.pos) ELSE r

\* <integer type as Writeable>::ser: the bytes appended to the writer
prim_ser(t, v) == to_le_bytes(v)

\* <bool as Readable>::de: any nonzero u32 is true
bool_de(s, p, rd) ==
    LET r == read_u32(s, p, rd)
    IN  IF r.kind = "ok" THEN Ok(r.val # <<0, 0>>, r.pos) ELSE r

\* <bool as Writeable>::ser
bool_ser(v) == write_i32(IF v THEN 1 ELSE 0)

----------------------------------------------------------------------------
(* Generic element loop *)

\* a usize (64-bit target) as four 16-bit limbs, most significant first
USize(n) == <<0, 0, n \div 65536, n % 65536>>
USizeOfU32(c) == <<0, 0, c[1], c[2]>>

\* i < len for a loop index i below 65536
CountLt(i, len) == len[1] > 0 \/ len[2] > 0 \/ len[3] > 0 \/ i < len[4]

\* size_of of the element a decoder yields
SizeOf(t) == IF t = "unit16" THEN 2 ELSE IF t = "bool" THEN 1 ELSE Width(t)

\* Vec::with_capacity panics ("capacity overflow") above isize::MAX bytes
CapacityOverflow(len, t) == len[1] * SizeOf(t) >= 32768

\* the closure f handed to read_array, by element tag
ElemDe(t, s, p, rd) ==
    IF t = "unit16" THEN read_u16(s, p, rd)
    ELSE IF t = "bool" THEN bool_de(s, p, rd)
    ELSE prim_de(t, s, p, rd)

\* for _ in 0..len { array.push(f(stream)?) }; calls counts invocations of f
RECURSIVE read_array_loop(_, _, _, _, _, _, _)
read_array_loop(i, len, s, p, t, rd, array) ==
    IF ~CountLt(i, len)
    THEN [kind |-> "ok", val |-> array, pos |-> p, calls |-> i]
    ELSE LET e == ElemDe(t, s, p, rd)
         IN  IF e.kind # "ok"
             THEN [kind |-> e.kind, val |-> <<>>, pos |-> e.pos, calls |-> i + 1]
             ELSE read_array_loop(i + 1, len, s, e.pos, t, rd, Append(array, e.val))

\* read_array(len, stream, f)
read_array(len, s, p, t, rd) ==
    IF CapacityOverflow(len, t)
    THEN [kind |-> "panic", val |-> <<>>, pos |-> p, calls |-> 0]
    ELSE read_array_loop(0, len, s, p, t, rd, <<>>)

----------------------------------------------------------------------------
(* String codec *)

Builds == {"debug", "release"}

\* read_string(len, stream).  `-len` of i32::MIN is an overflow: a panic
\* with overflow checks (debug), a wrap to i32::MIN without (release),
\* which `as usize` sign-extends to 2^64 - 2^31.
read_string(len, s, p, rd, build) ==
    IF len < 0
    THEN IF len = MinI32 /\ build = "debug" THEN Panic(p)
         ELSE LET n == IF len = MinI32 THEN <<65535, 65535, 32768, 0>>
                       ELSE USize(-len)
                  r == read_array(n, s, p, "unit16", rd)
              IN  IF r.kind # "ok"
                  THEN [kind |-> r.kind, val |-> <<>>, pos |-> r.pos]
                  ELSE LET length == position_zero(r.val)
                           d == from_utf16(SubSeq(r.val, 1, length))
                       IN  IF d.ok THEN Ok(d.val, r.pos) ELSE Panic(r.pos)
    ELSE LET r == read_exact(s, p, len, rd)
         IN  IF r.kind # "ok" THEN r
             ELSE LET length == position_zero(r.val)
                  IN  Ok(from_utf8_lossy(SubSeq(r.val, 1, length)), r.pos)

\* <String as Readable>::de
String_de(s, p, rd, build) ==
    LET len == read_i32(s, p, rd)
    IN  IF len.kind # "ok" THEN len ELSE read_string(len.val, s, len.pos, rd, build)

\* a bug: the prefix counts the characters but not the terminator
write_string_no_plus_one(value) ==
    IF value = <<>> THEN write_i32(0)
    ELSE IF is_ascii(value)
    THEN write_i32(Len(as_bytes(value))) \o as_bytes(value) \o <<0>>
    ELSE LET chars == encode_utf16(value)
         IN  write_i32(-Len(chars))
             \o Flatten([i \in 1..Len(chars) |-> write_u16(chars[i])])
             \o write_u16(0)

\* write_string(stream, value) into a Vec<u8>: the bytes appended
write_string(value) ==
    IF value = <<>> THEN write_i32(0)
    ELSE IF is_ascii(value)
    THEN write_i32(Len(as_bytes(value)) + 1) \o as_bytes(value) \o <<0>>
    ELSE LET chars == encode_utf16(value)
         IN  write_i32(-(Len(chars) + 1))
             \o Flatten([i \in 1..Len(chars) |-> write_u16(chars[i])])
             \o write_u16(0)

\* <String as Writeable>::ser
String_ser(value) == write_string(value)

----------------------------------------------------------------------------
(* State machine *)

RECURSIVE SeqsUpTo(_, _)
SeqsUpTo(S, n) ==
    IF n = 0 THEN {<<>>}
    ELSE LET shorter == SeqsUpTo(S, n - 1)
         IN  shorter \cup {Append(q, x) : q \in {z \in shorter : Len(z) = n - 1}, x \in S}

NoRes == [kind |-> "none", val |-> <<>>, pos |-> 0]
NoSrc == [t |-> "none", et |-> "none", v |-> <<>>, end |-> 0]
NoArg == [t |-> "none", n |-> 0]
\* the unbounded writer, a Vec<u8>
VecWriter == [cap |-> -1, atomic |-> FALSE]

Init ==
    /\ stream = <<>>
    /\ pos = 0
    /\ prev = 0
    /\ op = "init"
    /\ arg = NoArg
    /\ res = NoRes
    /\ src = NoSrc

\* the caller drops the stream and starts over
Reset ==
    /\ op # "init"
    /\ stream' = <<>>
    /\ pos' = 0
    /\ prev' = 0
    /\ op' = "init"
    /\ arg' = NoArg
    /\ res' = NoRes
    /\ src' = NoSrc

\* scalar values a String is drawn from: NUL, 'A', U+00E9, U+20AC, U+1F600
Chars == {0, 65, 233, 8364, 128512}
\* bytes of hand-built 8-bit payloads: NUL, 'A', pieces of C3 A9 and E2 82 AC
NarrowBytes == {0, 65, 130, 172, 195, 169, 226}
\* units of hand-built 16-bit payloads: NUL, 'A', U+00E9, the pair D83D DE00
WideUnits == {0, 65, 233, 55357, 56832}

Strings == SeqsUpTo(Chars, MaxStrLen)
Payloads ==
    SeqsUpTo(NarrowBytes, MaxPayload)
    \cup {Flatten([i \in 1..Len(u) |-> write_u16(u[i])]) : u \in SeqsUpTo(WideUnits, MaxPayload)}
Prefixes == (-(MaxPayload + 1))..(MaxPayload + 1) \cup {MinI32, MaxI32}

\* WriteExt::ser(&String) into a fresh Vec<u8>
SerString ==
    /\ op = "init"
    /\ \E value \in Strings :
          /\ stream' = stream \o String_ser(value)
          /\ src' = [t |-> "String", v |-> value, end |-> Len(stream')]
    /\ op' = "ser_string"
    /\ arg' = NoArg
    /\ UNCHANGED <<pos, prev, res>>

\* WriteExt::ser(&u8) of one more value after the one just written
SerTrailer ==
    /\ op \in {"ser_string", "ser", "ser_vec"}
    /\ op = "ser_vec" => arg.w = VecWriter
    /\ \E b \in {0, 65} :
          stream' = stream \o prim_ser("u8", [neg |-> FALSE, mag |-> <<b>>])
    /\ op' = "ser_more"
    /\ UNCHANGED <<pos, prev, arg, res, src>>

\* the caller supplies a stream holding a prefix and some payload
LoadString ==
    /\ op = "init"
    /\ \E n \in Prefixes, payload \in Payloads : stream' = write_i32(n) \o payload
    /\ op' = "load"
    /\ arg' = NoArg
    /\ UNCHANGED <<pos, prev, res, src>>

\* ReadExt::de::<String>()
DeString ==
    /\ \/ op \in {"ser_string", "ser_more", "load"}
       \/ op = "de_string" /\ res.kind = "ok" /\ pos < Len(stream)
    /\ prev' = pos
    /\ \E rd \in Readers, build \in Builds : res' = String_de(stream, pos, rd, build)
    /\ pos' = res'.pos
    /\ op' = "de_string"
    /\ arg' = NoArg
    /\ UNCHANGED <<stream, src>>

NextStr ==
    \/ SerString
    \/ SerTrailer
    \/ LoadString
    \/ DeString
    \/ Reset

SpecStr == Init /\ [][NextStr]_vars

----------------------------------------------------------------------------
(* Properties of the string codec (checked under SpecStr) *)

HasNul(v) == \E i \in 1..Len(v) : v[i] = 0

\* a decode of the string that was encoded, from the start of its bytes
DecodedEncoded == op = "de_string" /\ src.t = "String" /\ prev = 0

\* C1 as stated: every encoded string decodes to itself, consuming exactly
\* the bytes written.
StringRoundTripEveryString ==
    DecodedEncoded => (res.kind = "ok" /\ res.val = src.v /\ pos = src.end)

\* C1 amended: every encoded string without a U+0000 character decodes to
\* itself, and the decode consumes exactly the bytes written.
StringRoundTripNoNul ==
    (DecodedEncoded /\ ~HasNul(src.v))
        => (res.kind = "ok" /\ res.val = src.v /\ pos = src.end)

\* 'A' followed by U+1F600 round-trips with a trailing byte left unread
StringRoundTripWitness ==
    /\ DecodedEncoded
    /\ src.v = <<65, 128512>>
    /\ res.val = src.v
    /\ pos = src.end
    /\ pos < Len(stream)

\* the prefix the encoder wrote
WrittenPrefix == read_i32(stream, 0, "end").val

\* the 8-bit layout: positive prefix, one byte per character, a zero byte
CompactLayout ==
    /\ WrittenPrefix > 0
    /\ Len(stream) = 4 + Len(src.v) + 1
    /\ stream[Len(stream)] = 0

\* C3 as stated: a non-empty string takes the 8-bit path exactly when every
\* character fits in one byte (is at most U+00FF).
CompactWheneverOneByte ==
    (op = "ser_string" /\ src.v # <<>>)
        => (CompactLayout <=> \A i \in 1..Len(src.v) : src.v[i] <= 255)

\* C3 amended: a non-empty string takes the 8-bit path exactly when every
\* character is in the ASCII range (at most U+007F); any other string takes
\* the 16-bit path.
CompactExactlyAscii ==
    (op = "ser_string" /\ src.v # <<>>)
        => /\ CompactLayout <=> \A i \in 1..Len(src.v) : src.v[i] <= 127
           /\ WrittenPrefix < 0 <=> \E i \in 1..Len(src.v) : src.v[i] > 127

\* "A" followed by U+00E9 is written on the 16-bit path
CompactWitness ==
    /\ op = "ser_string"
    /\ src.v = <<65, 233>>
    /\ WrittenPrefix = -3
    /\ ~CompactLayout

\* number of UTF-16 units of a string: one per character, two above U+FFFF
Utf16Units(v) == Len(v) + Cardinality({i \in 1..Len(v) : v[i] >= 65536})

\* the k-th 16-bit little-endian unit of the written payload
WrittenUnit(k) == stream[4 + 2 * k - 1] + 256 * stream[4 + 2 * k]

\* C4: the written prefix is 0 exactly for the empty string (nothing
\* follows); L+1 for a non-empty ASCII string of length L, followed by its L
\* bytes and a zero byte; -(U+1) for any other string of U UTF-16 units,
\* followed by U+1 little-endian units, the last zero.
PrefixSignConvention ==
    op = "ser_string" =>
        LET v == src.v
            n == WrittenPrefix
            U == Utf16Units(v)
            ascii == \A i \in 1..Len(v) : v[i] <= 127
        IN  /\ n = 0 <=> v = <<>>
            /\ v = <<>> => Len(stream) = 4
            /\ (v # <<>> /\ ascii) =>
                  /\ n = Len(v) + 1
                  /\ Len(stream) = 4 + n
                  /\ \A i \in 1..Len(v) : stream[4 + i] = v[i]
                  /\ stream[4 + n] = 0
            /\ ~ascii =>
                  /\ n = -(U + 1)
                  /\ Len(stream) = 4 + 2 * (U + 1)
                  /\ from_utf16([k \in 1..U |-> WrittenUnit(k)]) = [ok |-> TRUE, val |-> v]
                  /\ WrittenUnit(U + 1) = 0

\* U+20AC U+1F600 is written as prefix -4 and four units
PrefixWitness ==
    /\ op = "ser_string"
    /\ src.v = <<8364, 128512>>
    /\ WrittenPrefix = -4
    /\ Len(stream) = 12

\* the prefix the decoder read, and the payload bytes after it
ReadPrefix == read_i32(stream, prev, "end")
Avail == Len(stream) - prev - 4
\* the declared payload is wholly in the stream
DeclaredAvailable ==
    /\ ReadPrefix.kind = "ok"
    /\ IF ReadPrefix.val >= 0 THEN ReadPrefix.val <= Avail
       ELSE ReadPrefix.val # MinI32 /\ -ReadPrefix.val <= Avail \div 2
\* fewer units than declared are in the stream
DeclaredShort ==
    /\ ReadPrefix.kind = "ok"
    /\ IF ReadPrefix.val >= 0 THEN ReadPrefix.val > Avail
       ELSE ReadPrefix.val = MinI32 \/ -ReadPrefix.val > Avail \div 2

\* the declared units, and those strictly before the first zero
DeclaredUnits ==
    LET n == ReadPrefix.val
    IN  IF n >= 0 THEN SubSeq(stream, prev + 5, prev + 4 + n)
        ELSE [k \in 1..(-n) |->
                stream[prev + 4 + 2 * k - 1] + 256 * stream[prev + 4 + 2 * k]]
BeforeFirstZero ==
    LET u == DeclaredUnits
        k == CHOOSE j \in 0..Len(u) :
                /\ \A i \in 1..j : u[i] # 0
                /\ j = Len(u) \/ u[j + 1] = 0
    IN  SubSeq(u, 1, k)

\* C2: a wide payload whose units before the first zero are not valid
\* UTF-16 makes the decode return a failure that is not an I/O failure.
InvalidWideFails ==
    (op = "de_string" /\ DeclaredAvailable /\ ReadPrefix.val < 0
        /\ ~from_utf16(BeforeFirstZero).ok)
        => res.kind \notin {"ok", "io", "panic"}

\* C5: with the declared payload available, the decode yields the decoding
\* of the units before the first zero and the cursor has passed the whole
\* declared payload.
TruncationAtFirstZero ==
    (op = "de_string" /\ DeclaredAvailable) =>
        LET n == ReadPrefix.val
        IN  /\ res.kind = "ok"
            /\ res.val = IF n >= 0 THEN from_utf8_lossy(BeforeFirstZero)
                         ELSE from_utf16(BeforeFirstZero).val
            /\ pos = prev + 4 + (IF n >= 0 THEN n ELSE 2 * (-n))

\* C9 (strings): a declared length exceeding the stream makes the decode
\* return an I/O failure; it never panics.
OversizedFailsWithIo ==
    (op = "de_string" /\ DeclaredShort) => res.kind = "io"

----------------------------------------------------------------------------
(* Primitive codec: state machine and properties (SpecPrim) *)

\* bytes in a hand-built raw stream
MaxRaw == 5

RawBytes == {0, 1, 255}
RawStreams == SeqsUpTo(RawBytes, MaxRaw)

Zeros(w) == [i \in 1..w |-> 0]
Pattern(w) == [i \in 1..w |-> i]
\* boundary values of a type: 0, 1, -1, min, max, and 0x0102..0w, -0x0102..0w
Boundary(t) ==
    LET w == Width(t)
        one == [Zeros(w) EXCEPT ![w] = 1]
        pos0 == {Zeros(w), one, Pattern(w)}
    IN  IF Signed(t)
        THEN {[neg |-> FALSE, mag |-> m] :
                 m \in pos0 \cup {[[i \in 1..w |-> 255] EXCEPT ![1] = 127]}}
             \cup {[neg |-> TRUE, mag |-> m] :
                 m \in {one, Pattern(w), [Zeros(w) EXCEPT ![1] = 128]}}
        ELSE {[neg |-> FALSE, mag |-> m] : m \in pos0 \cup {[i \in 1..w |-> 255]}}

\* every value of the 8-bit types, the boundary values of the wider ones
Values(t) ==
    IF t = "u8" THEN {[neg |-> FALSE, mag |-> <<b>>] : b \in 0..255}
    ELSE IF t = "i8"
    THEN {[neg |-> FALSE, mag |-> <<b>>] : b \in 0..127}
         \cup {[neg |-> TRUE, mag |-> <<b>>] : b \in 1..128}
    ELSE Boundary(t)

\* WriteExt::ser of an integer into a fresh Vec<u8>
SerPrim ==
    /\ op = "init"
    /\ \E t \in Types : \E v \in Values(t) :
          /\ stream' = stream \o prim_ser(t, v)
          /\ src' = [t |-> t, v |-> v, end |-> Len(stream')]
    /\ op' = "ser"
    /\ arg' = NoArg
    /\ UNCHANGED <<pos, prev, res>>

\* WriteExt::ser of a bool into a fresh Vec<u8>
SerBool ==
    /\ op = "init"
    /\ \E v \in BOOLEAN :
          /\ stream' = stream \o bool_ser(v)
          /\ src' = [t |-> "bool", v |-> v, end |-> Len(stream')]
    /\ op' = "ser"
    /\ arg' = NoArg
    /\ UNCHANGED <<pos, prev, res>>

\* the caller supplies a stream of arbitrary bytes
LoadRaw ==
    /\ op = "init"
    /\ stream' \in RawStreams
    /\ op' = "load"
    /\ arg' = NoArg
    /\ UNCHANGED <<pos, prev, res, src>>

\* a decode may follow a write, a load, or a decode that succeeded
CanDecode ==
    \/ op \in {"ser", "ser_more", "ser_vec", "ser_no_length", "load"} /\ res.kind # "io"
    \/ op = "de" /\ res.kind = "ok" /\ pos < Len(stream)

\* ReadExt::de::<T>() for an integer type T
DePrim ==
    /\ CanDecode
    /\ prev' = pos
    /\ \E t \in Types, rd \in Readers :
          /\ res' = prim_de(t, stream, pos, rd)
          /\ arg' = [t |-> t, n |-> 0]
    /\ pos' = res'.pos
    /\ op' = "de"
    /\ UNCHANGED <<stream, src>>

\* ReadExt::de::<bool>()
DeBool ==
    /\ CanDecode
    /\ prev' = pos
    /\ \E rd \in Readers : res' = bool_de(stream, pos, rd)
    /\ arg' = [t |-> "bool", n |-> 0]
    /\ pos' = res'.pos
    /\ op' = "de"
    /\ UNCHANGED <<stream, src>>

NextPrim ==
    \/ SerPrim
    \/ SerBool
    \/ SerTrailer
    \/ LoadRaw
    \/ DePrim
    \/ DeBool
    \/ Reset

SpecPrim == Init /\ [][NextPrim]_vars

\* a + b + carry on least-significant-first numerals of one length,
\* dropping the carry out of the top digit
RECURSIVE AddLE(_, _, _)
AddLE(a, b, carry) ==
    IF a = <<>> THEN <<>>
    ELSE LET sum == Head(a) + Head(b) + carry
         IN  <<sum % 256>> \o AddLE(Tail(a), Tail(b), sum \div 256)

\* bytes b are the w-byte little-endian two's-complement form of value v:
\* least significant digit first, and a negative value's bytes plus its
\* magnitude make 0 modulo 256^w
IsLittleEndianOf(b, v, w) ==
    /\ Len(b) = w
    /\ IF v.neg
       THEN AddLE(b, [i \in 1..w |-> v.mag[w + 1 - i]], 0) = Zeros(w)
       ELSE \A i \in 1..w : b[i] = v.mag[w + 1 - i]

\* C6: every value of bool and of each integer type decodes from its own
\* encoding to itself; an integer is written little-endian in exactly its
\* byte width, a bool as the 4-byte little-endian 0 or 1; and a bool decode
\* of any 4 bytes succeeds and is true exactly when some byte is nonzero.
PrimitiveRoundTrip ==
    /\ (op = "ser" /\ src.t \in Types)
          => IsLittleEndianOf(stream, src.v, Width(src.t))
    /\ (op = "ser" /\ src.t = "bool")
          => stream = <<IF src.v THEN 1 ELSE 0, 0, 0, 0>>
    /\ (op = "de" /\ src.t = arg.t /\ prev = 0)
          => (res.kind = "ok" /\ res.val = src.v /\ pos = src.end)
    /\ (op = "de" /\ arg.t = "bool" /\ Len(stream) - prev >= 4)
          => /\ res.kind = "ok"
             /\ res.val = (\E i \in (prev + 1)..(prev + 4) : stream[i] # 0)
             /\ pos = prev + 4

\* i64::MIN round-trips through 00 00 00 00 00 00 00 80
PrimitiveWitness ==
    /\ op = "de"
    /\ arg.t = "i64"
    /\ src.t = "i64"
    /\ src.v = [neg |-> TRUE, mag |-> <<128, 0, 0, 0, 0, 0, 0, 0>>]
    /\ stream = <<0, 0, 0, 0, 0, 0, 0, 128, 65>>
    /\ res.val = src.v
    /\ pos = 8

----------------------------------------------------------------------------
(* Container composition: Vec<T>, [T; N] and the u8 bulk paths *)

\* a writer: a Vec<u8> (cap < 0: unbounded), or a bounded one of cap bytes
\* that on overflow either keeps what fits (as &mut [u8] does) or, atomic,
\* rejects the whole buffer (Write::write: "if an error is returned then no
\* bytes in the buffer were written")

\* Write::write_all(bytes): [kind, buf]
write_all(buf, w, bytes) ==
    IF w.cap < 0 \/ Len(buf) + Len(bytes) <= w.cap
    THEN [kind |-> "ok", buf |-> buf \o bytes]
    ELSE [kind |-> "io",
          buf |-> IF w.atomic THEN buf
                  ELSE buf \o SubSeq(bytes, 1, w.cap - Len(buf))]

\* Writeable::ser_array (default): for i in this { Self::ser(i, stream)? }
RECURSIVE default_ser_array(_, _, _, _)
default_ser_array(t, this, buf, w) ==
    IF this = <<>> THEN [kind |-> "ok", buf |-> buf]
    ELSE LET r == write_all(buf, w, prim_ser(t, Head(this)))
         IN  IF r.kind # "ok" THEN r
             ELSE default_ser_array(t, Tail(this), r.buf, w)

\* the u8 values of a byte slice, and back
AsU8(bytes) == [i \in 1..Len(bytes) |-> [neg |-> FALSE, mag |-> <<bytes[i]>>]]
AsBytes(this) == [i \in 1..Len(this) |-> this[i].mag[1]]

\* a bug: the bulk write sending the slice back to front
u8_ser_array_reversed(this, buf, w) == write_all(buf, w, Reverse(AsBytes(this)))

\* <u8 as Writeable>::ser_array: one write_all of the whole slice
u8_ser_array(this, buf, w) == write_all(buf, w, AsBytes(this))

\* T::ser_array as dispatched for element type t
ser_array(t, this, buf, w) ==
    IF t = "u8" THEN u8_ser_array(this, buf, w)
    ELSE default_ser_array(t, this, buf, w)

\* a bug: writing the elements without the count
Vec_ser_no_count(t, this, buf, w) == ser_array(t, this, buf, w)

\* <Vec<T> as Writeable>::ser: the u32 count, then the elements
Vec_ser(t, this, buf, w) ==
    LET c == write_all(buf, w, write_i32(Len(this)))
    IN  IF c.kind # "ok" THEN c ELSE ser_array(t, this, c.buf, w)

\* Readable::de_vec (default): read_array(len, stream, Self::de)
default_de_vec(t, len, s, p, rd) == read_array(len, s, p, t, rd)

\* <u8 as Readable>::de_vec: vec![0; len], then one read_exact
u8_de_vec(len, s, p, rd) ==
    IF CapacityOverflow(len, "u8")
    THEN [kind |-> "panic", val |-> <<>>, pos |-> p, calls |-> 0]
    ELSE LET r == IF len[1] = 0 /\ len[2] = 0 /\ len[3] = 0
                  THEN read_exact(s, p, len[4], rd)
                  ELSE IoErr(IF rd = "end" THEN Len(s) ELSE p)
         IN  [kind |-> r.kind, val |-> AsU8(r.val), pos |-> r.pos, calls |-> 0]

\* T::de_vec as dispatched for element type t
de_vec(t, len, s, p, rd) ==
    IF t = "u8" THEN u8_de_vec(len, s, p, rd)
    ELSE default_de_vec(t, len, s, p, rd)

\* <Vec<T> as Readable>::de: a u32 count, then that many elements
Vec_de(t, s, p, rd) ==
    LET len == read_u32(s, p, rd)
    IN  IF len.kind # "ok"
        THEN [kind |-> len.kind, val |-> <<>>, pos |-> len.pos, calls |-> 0]
        ELSE de_vec(t, USizeOfU32(len.val), s, len.pos, rd)

\* a bug: the context decode reading a count from the stream all the same
Vec_de_ctx_reads_count(t, s, p, ctx, rd) == Vec_de(t, s, p, rd)

\* <Vec<T> as ReadableCtx<usize>>::de: ctx elements, no count read
Vec_de_ctx(t, s, p, ctx, rd) == de_vec(t, ctx, s, p, rd)

\* Readable::de_array (default): for i in buf.iter_mut() { *i = Self::de(stream)? }
RECURSIVE default_de_array_loop(_, _, _, _, _, _, _)
default_de_array_loop(i, N, t, s, p, rd, buf) ==
    IF i >= N THEN [kind |-> "ok", val |-> buf, pos |-> p, calls |-> i]
    ELSE LET e == prim_de(t, s, p, rd)
         IN  IF e.kind # "ok"
             THEN [kind |-> e.kind, val |-> <<>>, pos |-> e.pos, calls |-> i + 1]
             ELSE default_de_array_loop(i + 1, N, t, s, e.pos, rd, Append(buf, e.val))

default_de_array(t, N, s, p, rd) == default_de_array_loop(0, N, t, s, p, rd, <<>>)

\* <u8 as Readable>::de_array: [0; N], then one read_exact
u8_de_array(N, s, p, rd) ==
    LET r == read_exact(s, p, N, rd)
    IN  [kind |-> r.kind, val |-> AsU8(r.val), pos |-> r.pos, calls |-> 0]

\* <[T; N] as Readable>::de: T::de_array as dispatched for element type t
Array_de(t, N, s, p, rd) ==
    IF t = "u8" THEN u8_de_array(N, s, p, rd)
    ELSE default_de_array(t, N, s, p, rd)

----------------------------------------------------------------------------
(* Containers: state machine (SpecSeq) *)

\* elements in an encoded sequence
MaxVecLen == 3
\* largest externally supplied count / array length
MaxCtx == 2
\* largest capacity of a bounded writer
MaxCap == 2

\* element values a sequence is drawn from: 0x0102..0w and -1 or the maximum
Elems(t) ==
    LET w == Width(t)
    IN  {[neg |-> FALSE, mag |-> Pattern(w)],
         IF Signed(t) THEN [neg |-> TRUE, mag |-> [Zeros(w) EXCEPT ![w] = 1]]
         ELSE [neg |-> FALSE, mag |-> [i \in 1..w |-> 255]]}

Writers == {VecWriter} \cup {[cap |-> c, atomic |-> a] : c \in 0..MaxCap, a \in BOOLEAN}

\* counts a caller may hand to the context decode: small ones and usize::MAX
CtxCounts == {USize(n) : n \in 0..MaxCtx} \cup {<<65535, 65535, 65535, 65535>>}

\* WriteExt::ser(&Vec<T>)
SerVec ==
    /\ op = "init"
    /\ \E t \in Types, w \in Writers : \E this \in SeqsUpTo(Elems(t), MaxVecLen) :
          LET r == Vec_ser(t, this, stream, w)
          IN  /\ stream' = r.buf
              /\ res' = [kind |-> r.kind, val |-> <<>>, pos |-> 0]
              /\ arg' = [t |-> t, n |-> Len(this), this |-> this, w |-> w]
              /\ src' = IF r.kind = "ok"
                        THEN [t |-> "Vec", et |-> t, v |-> this, end |-> Len(r.buf)]
                        ELSE NoSrc
    /\ op' = "ser_vec"
    /\ UNCHANGED <<pos, prev>>

\* WriteExt::ser_no_length(&[T]) and <[T; N] as Writeable>::ser: T::ser_array
SerNoLength ==
    /\ op = "init"
    /\ \E t \in Types, w \in Writers : \E this \in SeqsUpTo(Elems(t), MaxVecLen) :
          LET r == ser_array(t, this, stream, w)
          IN  /\ stream' = r.buf
              /\ res' = [kind |-> r.kind, val |-> <<>>, pos |-> 0]
              /\ arg' = [t |-> t, n |-> Len(this), this |-> this, w |-> w]
    /\ src' = NoSrc
    /\ op' = "ser_no_length"
    /\ UNCHANGED <<pos, prev>>

\* ReadExt::de::<u8>() of one leading byte, before a container is decoded
DeLeadingU8 ==
    /\ op \in {"ser_vec", "ser_no_length", "load"}
    /\ res.kind # "io"
    /\ prev' = pos
    /\ res' = prim_de("u8", stream, pos, "end")
    /\ arg' = [t |-> "u8", n |-> 0]
    /\ pos' = res'.pos
    /\ op' = "de"
    /\ UNCHANGED <<stream, src>>

\* ReadExt::de::<Vec<T>>()
DeVec ==
    /\ CanDecode
    /\ prev' = pos
    /\ \E t \in Types, rd \in Readers :
          /\ res' = Vec_de(t, stream, pos, rd)
          /\ arg' = [t |-> t, n |-> 0, rd |-> rd]
    /\ pos' = res'.pos
    /\ op' = "de_vec"
    /\ UNCHANGED <<stream, src>>

\* ReadExt::de_ctx::<Vec<T>, usize>(ctx)
DeVecCtx ==
    /\ CanDecode
    /\ prev' = pos
    /\ \E t \in Types, rd \in Readers, ctx \in CtxCounts :
          /\ res' = Vec_de_ctx(t, stream, pos, ctx, rd)
          /\ arg' = [t |-> t, n |-> ctx, rd |-> rd]
    /\ pos' = res'.pos
    /\ op' = "de_ctx"
    /\ UNCHANGED <<stream, src>>

\* ReadExt::de::<[T; N]>()
DeArray ==
    /\ CanDecode
    /\ prev' = pos
    /\ \E t \in Types, rd \in Readers, N \in 0..MaxCtx :
          /\ res' = Array_de(t, N, stream, pos, rd)
          /\ arg' = [t |-> t, n |-> N, rd |-> rd]
    /\ pos' = res'.pos
    /\ op' = "de_array"
    /\ UNCHANGED <<stream, src>>

NextSeq ==
    \/ SerVec
    \/ SerNoLength
    \/ SerTrailer
    \/ LoadRaw
    \/ DeLeadingU8
    \/ DeVec
    \/ DeVecCtx
    \/ DeArray
    \/ Reset

SpecSeq == Init /\ [][NextSeq]_vars

----------------------------------------------------------------------------
(* Properties of the containers (checked under SpecSeq) *)

\* the i-th w-byte element slot after `from` bytes of the stream
Slot(from, i, w) == SubSeq(stream, from + (i - 1) * w + 1, from + i * w)

\* C7: a Vec of n w-byte integers is written as 4 + n*w bytes, the
\* little-endian u32 count n and then the elements in order; decoding those
\* bytes yields the sequence and consumes exactly 4 + n*w bytes.
SequenceRoundTrip ==
    /\ (op = "ser_vec" /\ res.kind = "ok") =>
          LET n == Len(arg.this)
              w == Width(arg.t)
          IN  /\ Len(stream) = 4 + n * w
              /\ SubSeq(stream, 1, 4) = <<n, 0, 0, 0>>
              /\ \A i \in 1..n : IsLittleEndianOf(Slot(4, i, w), arg.this[i], w)
    /\ (op = "de_vec" /\ src.t = "Vec" /\ src.et = arg.t /\ prev = 0) =>
          /\ res.kind = "ok"
          /\ res.val = src.v
          /\ pos = src.end
          /\ pos = 4 + Len(src.v) * Width(arg.t)

\* three i32 elements: 16 bytes written, 16 consumed, one byte left unread
SequenceWitness ==
    /\ op = "de_vec"
    /\ arg.t = "i32"
    /\ src.t = "Vec"
    /\ src.et = "i32"
    /\ Len(src.v) = 3
    /\ src.v[1] # src.v[2]
    /\ res.val = src.v
    /\ pos = 16
    /\ Len(stream) = 17

\* the externally supplied count, when it is a small number
CtxIsSmall == arg.n[1] = 0 /\ arg.n[2] = 0 /\ arg.n[3] = 0
CtxN == arg.n[4]
\* the stream holds N elements at the cursor
CtxAvailable == CtxIsSmall /\ CtxN * Width(arg.t) <= Len(stream) - prev

\* C8 as stated: the context decode reads no count, invokes the element
\* decoder exactly N times and consumes exactly N elements' worth of bytes.
CtxDecodeCallsElementDecoder ==
    (op = "de_ctx" /\ CtxAvailable) =>
        /\ res.kind = "ok"
        /\ res.calls = CtxN
        /\ pos = prev + CtxN * Width(arg.t)

\* C8 amended: the context decode reads no count: with N elements in the
\* stream it yields the N elements found at the cursor and consumes exactly
\* N elements' worth of bytes, invoking the element decoder N times unless
\* the element type is u8, which is read in bulk with no invocation.
CtxDecodeConsumesNElements ==
    (op = "de_ctx" /\ CtxAvailable) =>
        LET w == Width(arg.t)
        IN  /\ res.kind = "ok"
            /\ Len(res.val) = CtxN
            /\ \A i \in 1..CtxN : IsLittleEndianOf(Slot(prev, i, w), res.val[i], w)
            /\ pos = prev + CtxN * w
            /\ res.calls = IF arg.t = "u8" THEN 0 ELSE CtxN

\* the count 01 00 00 00 of a written Vec<u32> is decoded as the element 1
CtxWitness ==
    /\ op = "de_ctx"
    /\ arg.t = "u32"
    /\ CtxN = 1
    /\ src.t = "Vec"
    /\ Len(src.v) = 1
    /\ prev = 0
    /\ res.kind = "ok"
    /\ res.val = <<[neg |-> FALSE, mag |-> <<0, 0, 0, 1>>]>>
    /\ res.calls = 1
    /\ pos = 4

\* what the generic per-element paths do on the input of the last operation
GenericRead ==
    IF op = "de_ctx" THEN default_de_vec("u8", arg.n, stream, prev, arg.rd)
    ELSE IF op = "de_array" THEN default_de_array("u8", arg.n, stream, prev, arg.rd)
    ELSE LET len == read_u32(stream, prev, arg.rd)
         IN  IF len.kind # "ok" THEN len
             ELSE default_de_vec("u8", USizeOfU32(len.val), stream, len.pos, arg.rd)
GenericWrite ==
    IF op = "ser_no_length" THEN default_ser_array("u8", arg.this, <<>>, arg.w)
    ELSE LET c == write_all(<<>>, arg.w, write_i32(Len(arg.this)))
         IN  IF c.kind # "ok" THEN c
             ELSE default_ser_array("u8", arg.this, c.buf, arg.w)

BulkRead == op \in {"de_vec", "de_ctx", "de_array"} /\ arg.t = "u8"
BulkWrite == op \in {"ser_vec", "ser_no_length"} /\ arg.t = "u8"

\* C10 as stated: the u8 bulk paths give the same result as the generic
\* loops and leave the stream the same, whatever the stream and length.
BulkIdenticalToGeneric ==
    /\ BulkRead => /\ res.kind = GenericRead.kind
                   /\ res.val = GenericRead.val
                   /\ pos = GenericRead.pos
    /\ BulkWrite => /\ res.kind = GenericWrite.kind
                    /\ stream = GenericWrite.buf

\* C10 amended: the u8 bulk paths succeed, fail and panic in exactly the
\* cases the generic loops do; when they succeed they give the same value,
\* the same bytes in the same order and the same stream position.
BulkIdenticalOnSuccess ==
    /\ BulkRead => /\ res.kind = GenericRead.kind
                   /\ res.val = GenericRead.val
                   /\ res.kind = "ok" => pos = GenericRead.pos
    /\ BulkWrite => /\ res.kind = GenericWrite.kind
                    /\ res.kind = "ok" => stream = GenericWrite.buf

\* two bytes are read in bulk after a leading byte, more bytes following
BulkWitness ==
    /\ op = "de_ctx"
    /\ arg.t = "u8"
    /\ prev = 1
    /\ res.kind = "ok"
    /\ res.val = AsU8(<<1, 255>>)
    /\ pos = 3
    /\ Len(stream) > 3

====
